---- MODULE Spec2Model ----
(***************************************************************************)
(* The NaiveBayes classifier of src/src/NaiveBayes.js as a state machine.  *)
(*                                                                         *)
(* A JavaScript string is a sequence of one-character strings, so that     *)
(* its length, its tokens and its reading as an array index are computed.  *)
(* A JavaScript value passed as a document is a record [type, val].        *)
(* A probability is an exact fraction [nan, num, den].                     *)
(***************************************************************************)
EXTENDS Integers, Sequences, FiniteSets, TLC

\* ------------------------------------------------------------- bounds
MaxDocs == 2          \* documents the log may hold
MaxExamples == 1      \* direct addExample calls are made while totalExamples <= this
MaxCalls == 4         \* calls a scenario run records

\* ------------------------------------------------------------- state
VARIABLES
    docs,           \* this.docs: sequence of [label, value]
    lastAdded,      \* this.lastAdded: the train() cursor
    features,       \* this.features: its own keys, in creation order
    classFeatures,  \* this.classFeatures: sequence of [key, value], in creation order
    classTotals,    \* this.classTotals: label -> total
    totalExamples,  \* this.totalExamples
    accumulated,    \* history: the addExample calls made, as [features, label]
    call,           \* the last call made: [op, doc, features, label]
    result,         \* what the last call returned or threw
    calls           \* the calls made so far (recorded by scenario runs only)

\* the fields of the classifier
fields == <<docs, lastAdded, features, classFeatures, classTotals, totalExamples>>
vars == <<docs, lastAdded, features, classFeatures, classTotals, totalExamples,
          accumulated, call, result, calls>>

\* this.smoothing, fixed by the constructor and never assigned again
smoothing == 1

\* ------------------------------------------------------------- JavaScript values
JsString(s) == [type |-> "string", val |-> s]
JsArray(a) == [type |-> "array", val |-> a]
JsNull == [type |-> "null", val |-> <<>>]
JsUndefined == [type |-> "undefined", val |-> <<>>]
JsNumber == [type |-> "number", val |-> <<>>]
\* an object literal with no length property
JsObject == [type |-> "object", val |-> <<>>]

\* the value of s.length as size() reads it
NoLength == -1

isString(s) == s.type = "string"

isArray(s) == s.type = "array"

\* typeof s === 'object' holds of arrays, of plain objects and of null
isObject(s) == s.type \in {"array", "object", "null"}

\* [throws, length]: reading .length of null throws a TypeError; a plain
\* object has no length (undefined, NoLength here)
size(s) ==
    IF isArray(s) \/ isString(s) \/ isObject(s)
    THEN IF s.type = "null" THEN [throws |-> TRUE, length |-> NoLength]
         ELSE IF s.type = "object" THEN [throws |-> FALSE, length |-> NoLength]
         ELSE [throws |-> FALSE, length |-> Len(s.val)]
    ELSE [throws |-> FALSE, length |-> 0]

\* !x for x a length or undefined
Falsy(n) == n = 0 \/ n = NoLength

\* ------------------------------------------------------------- tokenizer
SP == " "

RECURSIVE tokenize(_, _)
tokenize(s, cur) ==
    IF s = <<>> THEN (IF cur = <<>> THEN <<>> ELSE <<cur>>)
    ELSE IF Head(s) = SP
         THEN (IF cur = <<>> THEN <<>> ELSE <<cur>>) \o tokenize(Tail(s), <<>>)
         ELSE tokenize(Tail(s), Append(cur, Head(s)))

\* PorterStemmer.tokenizeAndStem: the words of the text, in order, unchanged
tokenizeAndStem(text) == tokenize(text, <<>>)

\* ------------------------------------------------------------- property order
Digits == {"0", "1", "2", "3", "4", "5", "6", "7", "8", "9"}

DigitValue(c) ==
    CASE c = "0" -> 0 [] c = "1" -> 1 [] c = "2" -> 2 [] c = "3" -> 3
      [] c = "4" -> 4 [] c = "5" -> 5 [] c = "6" -> 6 [] c = "7" -> 7
      [] c = "8" -> 8 [] c = "9" -> 9

\* a key is an array index when it is the canonical decimal form of an integer
IsArrayIndex(k) ==
    /\ Len(k) > 0
    /\ Len(k) < 10
    /\ \A i \in 1..Len(k) : k[i] \in Digits
    /\ Len(k) > 1 => k[1] # "0"

RECURSIVE ToNumber(_)
ToNumber(k) ==
    IF k = <<>> THEN 0
    ELSE 10 * ToNumber(SubSeq(k, 1, Len(k) - 1)) + DigitValue(k[Len(k)])

RECURSIVE Ascending(_)
Ascending(S) ==
    IF S = {} THEN <<>>
    ELSE LET m == CHOOSE x \in S : \A y \in S : ToNumber(x) <= ToNumber(y)
         IN <<m>> \o Ascending(S \ {m})

IsIndexKey(k) == IsArrayIndex(k)

IsNameKey(k) == ~IsArrayIndex(k)

\* for (key in object): array-index keys in ascending numeric order, then the
\* other keys in creation order
ForIn(keys) ==
    Ascending({keys[i] : i \in {j \in 1..Len(keys) : IsIndexKey(keys[j])}})
        \o SelectSeq(keys, IsNameKey)

\* the feature map started afresh for each document
RECURSIVE FreshKeys(_, _)
FreshKeys(keys, ks) ==
    IF ks = <<>> THEN keys
    ELSE FreshKeys(IF \E i \in 1..Len(keys) : keys[i] = Head(ks)
                   THEN keys ELSE Append(keys, Head(ks)), Tail(ks))

ReplaceKeys(keys, ks) == FreshKeys(<<>>, ks)

\* object[key] = 1 for each key, on an object whose own keys are `keys`
RECURSIVE SetKeys(_, _)
SetKeys(keys, ks) ==
    IF ks = <<>> THEN keys
    ELSE SetKeys(IF \E i \in 1..Len(keys) : keys[i] = Head(ks)
                 THEN keys ELSE Append(keys, Head(ks)), Tail(ks))

\* ------------------------------------------------------------- the classifier
This ==
    [docs |-> docs, lastAdded |-> lastAdded, features |-> features,
     classFeatures |-> classFeatures, classTotals |-> classTotals,
     totalExamples |-> totalExamples, accumulated |-> accumulated]

Fresh ==
    [docs |-> <<>>, lastAdded |-> 0, features |-> <<>>,
     classFeatures |-> <<>>, classTotals |-> <<>>, totalExamples |-> 1,
     accumulated |-> <<>>]

Becomes(t) ==
    /\ docs' = t.docs
    /\ lastAdded' = t.lastAdded
    /\ features' = t.features
    /\ classFeatures' = t.classFeatures
    /\ classTotals' = t.classTotals
    /\ totalExamples' = t.totalExamples
    /\ accumulated' = t.accumulated

SetEntry(f, k, v) == [x \in (DOMAIN f) \cup {k} |-> IF x = k THEN v ELSE f[x]]

HasClass(cf, label) == \E i \in 1..Len(cf) : cf[i].key = label

ClassAt(cf, label) == CHOOSE i \in 1..Len(cf) : cf[i].key = label

\* this.classFeatures[label], for a label that has been created
CountsOf(cf, label) == cf[ClassAt(cf, label)].value

ClassKeys(cf) == [i \in 1..Len(cf) |-> cf[i].key]

Ok(t) == [this |-> t, throws |-> FALSE]

Throws(t) == [this |-> t, throws |-> TRUE]

\* addDocument without the size test of its first lines
addDocumentUnguarded(t, doc, label) ==
    LET sz == size(doc)
        stems == IF isString(doc) THEN tokenizeAndStem(doc.val) ELSE doc.val
    IN IF sz.throws THEN Throws(t)
       ELSE Ok([t EXCEPT !.docs = Append(@, [label |-> label, value |-> stems]),
                         !.features = SetKeys(@, stems)])

addDocument(t, doc, label) ==
    LET sz == size(doc)
        stems == IF isString(doc) THEN tokenizeAndStem(doc.val) ELSE doc.val
    IN IF sz.throws THEN Throws(t)
       ELSE IF Falsy(sz.length) THEN Ok(t)
       ELSE Ok([t EXCEPT !.docs = Append(@, [label |-> label, value |-> stems]),
                         !.features = SetKeys(@, stems)])

\* docs[i] for i < docs.length: the elements of an array, the characters of a string
Elements(ds) ==
    IF isString(ds) THEN [i \in 1..Len(ds.val) |-> JsString(<<ds.val[i]>>)]
    ELSE ds.val

RECURSIVE addEach(_, _, _)
addEach(t, ds, label) ==
    IF ds = <<>> THEN Ok(t)
    ELSE LET r == addDocument(t, Head(ds), label)
         IN IF r.throws THEN r ELSE addEach(r.this, Tail(ds), label)

addDocuments(t, ds, label) == addEach(t, Elements(ds), label)

\* Array.prototype.indexOf: the first 0-based position of x, or -1
indexOf(a, x) ==
    IF \E i \in 1..Len(a) : a[i] = x
    THEN (CHOOSE i \in 1..Len(a) : a[i] = x /\ \A j \in 1..(i - 1) : a[j] # x) - 1
    ELSE -1

\* docToFeatures with the ~ left out: Number(!!doc.indexOf(feature))
docToFeaturesNoTilde(t, doc) ==
    LET stems == IF isString(doc) THEN tokenizeAndStem(doc.val) ELSE doc.val
        keys == ForIn(t.features)
    IN IF keys # <<>> /\ ~(isString(doc) \/ isArray(doc))
       THEN [throws |-> TRUE, vector |-> <<>>]
       ELSE [throws |-> FALSE,
             vector |-> [i \in 1..Len(keys) |->
                            IF indexOf(stems, keys[i]) # 0 THEN 1 ELSE 0]]

\* [throws, vector]: doc.indexOf is evaluated once per feature, and throws a
\* TypeError on a doc that is neither a string nor an array
docToFeatures(t, doc) ==
    LET stems == IF isString(doc) THEN tokenizeAndStem(doc.val) ELSE doc.val
        keys == ForIn(t.features)
    IN IF keys # <<>> /\ ~(isString(doc) \/ isArray(doc))
       THEN [throws |-> TRUE, vector |-> <<>>]
       ELSE [throws |-> FALSE,
             vector |-> [i \in 1..Len(keys) |->
                            IF indexOf(stems, keys[i]) # -1 THEN 1 ELSE 0]]

EmptyCounts == [i \in {} |-> 0]

\* a first occurrence recorded as 1, without this.smoothing
IncrementFromOne(counts, k) ==
    IF k \in DOMAIN counts /\ counts[k] # 0
    THEN SetEntry(counts, k, counts[k] + 1)
    ELSE SetEntry(counts, k, 1)

\* a first occurrence recorded as this.smoothing - 1 instead of 1 + this.smoothing
IncrementFromBelow(counts, k) ==
    IF k \in DOMAIN counts /\ counts[k] # 0
    THEN SetEntry(counts, k, counts[k] + 1)
    ELSE SetEntry(counts, k, smoothing - 1)

\* the if/else of addExample on one feature key of one class
Increment(counts, k) ==
    IF k \in DOMAIN counts /\ counts[k] # 0
    THEN SetEntry(counts, k, counts[k] + 1)
    ELSE SetEntry(counts, k, 1 + smoothing)

\* while (i--) over a positional vector; index i is vec[i + 1] here
RECURSIVE CountVector(_, _, _)
CountVector(counts, vec, i) ==
    IF i = 0 THEN counts
    ELSE CountVector(IF vec[i] # 0 THEN Increment(counts, i - 1) ELSE counts,
                     vec, i - 1)

\* for (key in docFeatures) over a mapping, given as its values in key order
RECURSIVE CountMapping(_, _)
CountMapping(counts, values) ==
    IF values = <<>> THEN counts
    ELSE CountMapping(Increment(counts, Head(values)), Tail(values))

SetCounts(cf, label, counts) ==
    [i \in 1..Len(cf) |->
        IF cf[i].key = label THEN [key |-> label, value |-> counts] ELSE cf[i]]

\* addExample with this.totalExamples++ moved into the positional branch
addExampleCountsVectors(t, docFeatures, label) ==
    LET t1 == IF ~HasClass(t.classFeatures, label)
              THEN [t EXCEPT
                      !.classFeatures = Append(@, [key |-> label, value |-> EmptyCounts]),
                      !.classTotals = SetEntry(@, label, 1)]
              ELSE t
        t2 == [t1 EXCEPT !.accumulated = Append(@, [features |-> docFeatures,
                                                    label |-> label])]
        counts == CountsOf(t2.classFeatures, label)
    IN IF isArray(docFeatures)
       THEN [t2 EXCEPT
               !.totalExamples = @ + 1,
               !.classTotals = SetEntry(@, label, @[label] + 1),
               !.classFeatures =
                   SetCounts(@, label,
                             CountVector(counts, docFeatures.val, Len(docFeatures.val)))]
       ELSE [t2 EXCEPT
               !.classFeatures =
                   SetCounts(@, label, CountMapping(counts, docFeatures.val))]

addExample(t, docFeatures, label) ==
    LET t1 == IF ~HasClass(t.classFeatures, label)
              THEN [t EXCEPT
                      !.classFeatures = Append(@, [key |-> label, value |-> EmptyCounts]),
                      !.classTotals = SetEntry(@, label, 1)]
              ELSE t
        t2 == [t1 EXCEPT !.totalExamples = @ + 1,
                         !.accumulated = Append(@, [features |-> docFeatures,
                                                    label |-> label])]
        counts == CountsOf(t2.classFeatures, label)
    IN IF isArray(docFeatures)
       THEN [t2 EXCEPT
               !.classTotals = SetEntry(@, label, @[label] + 1),
               !.classFeatures =
                   SetCounts(@, label,
                             CountVector(counts, docFeatures.val, Len(docFeatures.val)))]
       ELSE [t2 EXCEPT
               !.classFeatures =
                   SetCounts(@, label, CountMapping(counts, docFeatures.val))]

RECURSIVE trainLoop(_, _)
trainLoop(t, totalDocs) ==
    IF t.lastAdded >= totalDocs THEN t
    ELSE LET d == t.docs[t.lastAdded + 1]
             fs == docToFeatures(t, JsArray(d.value)).vector
         IN trainLoop([addExample(t, JsArray(fs), d.label) EXCEPT !.lastAdded = @ + 1],
                      totalDocs)

\* the loop started one past the cursor: for (let i = this.lastAdded + 1; ...)
trainPastCursor(t) ==
    IF t.lastAdded >= Len(t.docs) THEN t
    ELSE [trainLoop([t EXCEPT !.lastAdded = @ + 1], Len(t.docs))
            EXCEPT !.lastAdded = @ - 1]

\* this.lastAdded++ left out of the loop
trainKeepsCursor(t) ==
    [trainLoop(t, Len(t.docs)) EXCEPT !.lastAdded = t.lastAdded]

\* the classes started over by every train()
trainForgetting(t) ==
    trainLoop([t EXCEPT !.classFeatures = <<>>, !.classTotals = <<>>], Len(t.docs))

\* train walking the whole log again instead of starting at the cursor
trainFromStart(t) == trainLoop([t EXCEPT !.lastAdded = 0], Len(t.docs))

train(t) == trainLoop(t, Len(t.docs))

\* ------------------------------------------------------------- scoring
RECURSIVE GCD(_, _)
GCD(a, b) == IF b = 0 THEN a ELSE GCD(b, a % b)

\* the fraction n/d in lowest terms
Fraction(n, d) == [nan |-> FALSE, num |-> n \div GCD(n, d), den |-> d \div GCD(n, d)]

NaN == [nan |-> TRUE, num |-> 0, den |-> 1]

Times(p, q) == Fraction(p.num * q.num, p.den * q.den)

\* y.value - x.value > 0
Greater(y, x) == y.num * x.den > x.num * y.den

\* the keys a feature argument makes present: the indices of a positional
\* vector that hold a nonzero value, from the last to the first, or the
\* values of a mapping
RECURSIVE PresentIndices(_, _)
PresentIndices(vec, i) ==
    IF i = 0 THEN <<>>
    ELSE (IF vec[i] # 0 THEN <<i - 1>> ELSE <<>>) \o PresentIndices(vec, i - 1)

\* the test of docFeatures[i] left out: every index counts as present
PresentAll(docFeatures) ==
    IF isArray(docFeatures)
    THEN [i \in 1..Len(docFeatures.val) |-> Len(docFeatures.val) - i]
    ELSE docFeatures.val

Present(docFeatures) ==
    IF isArray(docFeatures)
    THEN PresentIndices(docFeatures.val, Len(docFeatures.val))
    ELSE docFeatures.val

\* the fallback to this.smoothing left out: a missing count scored as 0
CountOrZero(counts, k) ==
    IF k \in DOMAIN counts /\ counts[k] # 0 THEN counts[k] ELSE 0

\* the recorded count ignored: every present feature scored at the floor
CountFloor(counts, k) == smoothing

\* this.classFeatures[label][k] || this.smoothing
CountOr(counts, k) ==
    IF k \in DOMAIN counts /\ counts[k] # 0 THEN counts[k] ELSE smoothing

\* Math.exp of the sum of Math.log(count / classTotals[label]) over the
\* present keys: the product of the ratios
RECURSIVE Likelihood(_, _, _)
Likelihood(counts, total, keys) ==
    IF keys = <<>> THEN Fraction(1, 1)
    ELSE Times(Fraction(CountOr(counts, Head(keys)), total),
               Likelihood(counts, total, Tail(keys)))

\* [throws, value]: for a label with no class, reading a count of
\* this.classFeatures[label] throws a TypeError, and with no present key the
\* ratio undefined / totalExamples is NaN
probabilityOfClass(t, docFeatures, label) ==
    LET keys == Present(docFeatures)
    IN IF ~HasClass(t.classFeatures, label)
       THEN IF keys # <<>> THEN [throws |-> TRUE, value |-> NaN]
            ELSE [throws |-> FALSE, value |-> NaN]
       ELSE LET total == t.classTotals[label]
                featureRatio == Fraction(total, t.totalExamples)
            IN [throws |-> FALSE,
                value |-> Times(featureRatio,
                                Likelihood(CountsOf(t.classFeatures, label), total, keys))]

\* Array.prototype.sort with (x, y) => y.value - x.value: stable, descending
RECURSIVE InsertSorted(_, _)
InsertSorted(sorted, e) ==
    IF sorted = <<>> THEN <<e>>
    ELSE IF Greater(e.value, Head(sorted).value) THEN <<e>> \o sorted
    ELSE <<Head(sorted)>> \o InsertSorted(Tail(sorted), e)

RECURSIVE SortDescending(_, _)
SortDescending(sorted, rest) ==
    IF rest = <<>> THEN sorted
    ELSE SortDescending(InsertSorted(sorted, Head(rest)), Tail(rest))

\* the comparator reversed: x.value - y.value
sortAscending(labels) ==
    LET sorted == SortDescending(<<>>, labels)
    IN [i \in 1..Len(sorted) |-> sorted[Len(sorted) + 1 - i]]

sort(labels) == SortDescending(<<>>, labels)

\* [throws, list]
getClassifications(t, doc) ==
    LET names == ForIn(ClassKeys(t.classFeatures))
        fs == docToFeatures(t, doc)
        ps == [i \in 1..Len(names) |->
                  probabilityOfClass(t, JsArray(fs.vector), names[i])]
    IN IF names # <<>> /\ (fs.throws \/ \E i \in 1..Len(names) : ps[i].throws)
       THEN [throws |-> TRUE, list |-> <<>>]
       ELSE [throws |-> FALSE,
             list |-> sort([i \in 1..Len(names) |->
                              [label |-> names[i], value |-> ps[i].value]])]

NoLabel == <<>>

\* classify without the size test: the label of a missing first entry is read
classifyUnchecked(t, doc) ==
    LET classifications == getClassifications(t, doc)
    IN IF classifications.throws \/ classifications.list = <<>>
       THEN [throws |-> TRUE, error |-> "TypeError", label |-> NoLabel]
       ELSE [throws |-> FALSE, error |-> "", label |-> classifications.list[1].label]

\* [throws, error, label]
classify(t, doc) ==
    LET classifications == getClassifications(t, doc)
    IN IF classifications.throws
       THEN [throws |-> TRUE, error |-> "TypeError", label |-> NoLabel]
       ELSE IF Falsy(Len(classifications.list))
       THEN [throws |-> TRUE, error |-> "Not trained", label |-> NoLabel]
       ELSE [throws |-> FALSE, error |-> "", label |-> classifications.list[1].label]

\* ------------------------------------------------------------- calls
NoResult ==
    [status |-> "none", error |-> "", label |-> NoLabel, list |-> <<>>,
     vector |-> <<>>, value |-> NaN]

Returned == [NoResult EXCEPT !.status = "return"]

Thrown(e) == [NoResult EXCEPT !.status = "throw", !.error = e]

NoCall == [op |-> "new", doc |-> JsUndefined, features |-> JsUndefined, label |-> NoLabel]

Init ==
    /\ docs = Fresh.docs
    /\ lastAdded = Fresh.lastAdded
    /\ features = Fresh.features
    /\ classFeatures = Fresh.classFeatures
    /\ classTotals = Fresh.classTotals
    /\ totalExamples = Fresh.totalExamples
    /\ accumulated = Fresh.accumulated
    /\ call = NoCall
    /\ result = NoResult
    /\ calls = <<>>

AddDocument(doc, label) ==
    /\ LET r == addDocument(This, doc, label)
       IN /\ Becomes(r.this)
          /\ result' = IF r.throws THEN Thrown("TypeError") ELSE Returned
    /\ call' = [NoCall EXCEPT !.op = "addDocument", !.doc = doc, !.label = label]

AddDocuments(ds, label) ==
    /\ LET r == addDocuments(This, ds, label)
       IN /\ Becomes(r.this)
          /\ result' = IF r.throws THEN Thrown("TypeError") ELSE Returned
    /\ call' = [NoCall EXCEPT !.op = "addDocuments", !.doc = ds, !.label = label]

Train ==
    /\ Becomes(train(This))
    /\ result' = Returned
    /\ call' = [NoCall EXCEPT !.op = "train"]

AddExample(docFeatures, label) ==
    /\ Becomes(addExample(This, docFeatures, label))
    /\ result' = Returned
    /\ call' = [NoCall EXCEPT !.op = "addExample", !.features = docFeatures,
                              !.label = label]

DocToFeatures(doc) ==
    /\ LET r == docToFeatures(This, doc)
       IN result' = IF r.throws THEN Thrown("TypeError")
                    ELSE [Returned EXCEPT !.vector = r.vector]
    /\ call' = [NoCall EXCEPT !.op = "docToFeatures", !.doc = doc]
    /\ Becomes(This)

ProbabilityOfClass(docFeatures, label) ==
    /\ LET r == probabilityOfClass(This, docFeatures, label)
       IN result' = IF r.throws THEN Thrown("TypeError")
                    ELSE [Returned EXCEPT !.value = r.value]
    /\ call' = [NoCall EXCEPT !.op = "probabilityOfClass", !.features = docFeatures,
                              !.label = label]
    /\ Becomes(This)

GetClassifications(doc) ==
    /\ LET r == getClassifications(This, doc)
       IN result' = IF r.throws THEN Thrown("TypeError")
                    ELSE [Returned EXCEPT !.list = r.list]
    /\ call' = [NoCall EXCEPT !.op = "getClassifications", !.doc = doc]
    /\ Becomes(This)

\* classify that also enters the stems of the document into the vocabulary
ClassifyLearning(doc) ==
    /\ LET r == classify(This, doc)
       IN result' = IF r.throws THEN Thrown(r.error)
                    ELSE [Returned EXCEPT !.label = r.label]
    /\ call' = [NoCall EXCEPT !.op = "classify", !.doc = doc]
    /\ Becomes([This EXCEPT !.features =
                    SetKeys(@, IF isString(doc) THEN tokenizeAndStem(doc.val)
                               ELSE doc.val)])

Classify(doc) ==
    /\ LET r == classify(This, doc)
       IN result' = IF r.throws THEN Thrown(r.error)
                    ELSE [Returned EXCEPT !.label = r.label]
    /\ call' = [NoCall EXCEPT !.op = "classify", !.doc = doc]
    /\ Becomes(This)

\* ------------------------------------------------------------- inputs
Word(c) == <<c>>

pos == <<"p", "o", "s">>
neg == <<"n", "e", "g">>

Labels == {pos, neg}

Arg(x, l) == [arg |-> x, label |-> l]

Mapping(values) == [type |-> "object", val |-> values]

\* the text "a b" and the stem sequence ["7"]
TextAB == JsString(<<"a", SP, "b">>)
Stems7 == JsArray(<<Word("7")>>)

\* addDocument: the two documents, and "", [], null, undefined, a number, {}
AddDocumentInputs ==
    <<Arg(TextAB, pos), Arg(Stems7, pos), Arg(Stems7, neg),
      Arg(JsString(<<>>), pos), Arg(JsArray(<<>>), neg), Arg(JsNull, pos),
      Arg(JsUndefined, pos), Arg(JsNumber, pos), Arg(JsObject, pos)>>

\* addDocuments: [], [["7"], "a b"], ["a b", null], and the string "7"
AddDocumentsInputs ==
    <<Arg(JsArray(<<>>), pos),
      Arg(JsArray(<<Stems7, TextAB>>), neg),
      Arg(JsArray(<<TextAB, JsNull>>), pos),
      Arg(JsString(<<"7">>), pos)>>

\* addExample: [0, 1] and the mapping {x: 0}
AddExampleInputs ==
    <<Arg(JsArray(<<0, 1>>), neg), Arg(Mapping(<<0>>), pos)>>

\* probabilityOfClass: [1], [0, 1], [], and the mapping {x: 0}
ProbabilityInputs ==
    <<Arg(JsArray(<<1>>), pos), Arg(JsArray(<<0, 1>>), neg), Arg(JsArray(<<>>), neg),
      Arg(Mapping(<<0>>), neg)>>

\* documents asked about: "a", ["b", "7"] and null
QueryInputs ==
    <<JsString(<<"a">>), JsArray(<<Word("b"), Word("7")>>), JsNull>>

Unlogged == UNCHANGED calls

Next ==
    \/ \E i \in 1..Len(AddDocumentInputs) :
          /\ Len(docs) < MaxDocs
          /\ AddDocument(AddDocumentInputs[i].arg, AddDocumentInputs[i].label)
          /\ Unlogged
    \/ \E i \in 1..Len(AddDocumentsInputs) :
          /\ Len(docs) + Len(AddDocumentsInputs[i].arg.val) <= MaxDocs
          /\ AddDocuments(AddDocumentsInputs[i].arg, AddDocumentsInputs[i].label)
          /\ Unlogged
    \/ Train /\ Unlogged
    \/ \E i \in 1..Len(AddExampleInputs) :
          /\ totalExamples <= MaxExamples
          /\ AddExample(AddExampleInputs[i].arg, AddExampleInputs[i].label)
          /\ Unlogged
    \/ \E i \in 1..Len(QueryInputs) : DocToFeatures(QueryInputs[i]) /\ Unlogged
    \/ \E i \in 1..Len(ProbabilityInputs) :
          /\ ProbabilityOfClass(ProbabilityInputs[i].arg, ProbabilityInputs[i].label)
          /\ Unlogged
    \/ \E i \in 1..Len(QueryInputs) : GetClassifications(QueryInputs[i]) /\ Unlogged
    \/ \E i \in 1..Len(QueryInputs) : Classify(QueryInputs[i]) /\ Unlogged

Spec == Init /\ [][Next]_vars

\* ------------------------------------------------------------- scenario runs
\* a text: its words joined by single spaces
RECURSIVE Join(_)
Join(words) ==
    IF words = <<>> THEN <<>>
    ELSE IF Len(words) = 1 THEN Head(words)
    ELSE Head(words) \o <<SP>> \o Join(Tail(words))

Text(words) == JsString(Join(words))

I == <<"i">>
Love == <<"l", "o", "v", "e">>
Hate == <<"h", "a", "t", "e">>
Cats == <<"c", "a", "t", "s">>
Dogs == <<"d", "o", "g", "s">>
Parrots == <<"p", "a", "r", "r", "o", "t", "s">>

PosDocs == JsArray(<<Text(<<I, Love, Cats>>), Text(<<I, Love, Dogs>>)>>)
NegDocs == JsArray(<<Text(<<I, Hate, Cats>>), Text(<<I, Hate, Dogs>>)>>)
LoveParrots == Text(<<I, Love, Parrots>>)
HateParrots == Text(<<I, Hate, Parrots>>)

Logged == Len(calls) < MaxCalls /\ calls' = Append(calls, call')

\* the calls of the end-to-end scenario, made in any order and any number
ScenarioNext ==
    \/ AddDocuments(PosDocs, pos) /\ Logged
    \/ AddDocuments(NegDocs, neg) /\ Logged
    \/ Train /\ Logged
    \/ Classify(LoveParrots) /\ Logged
    \/ Classify(HateParrots) /\ Logged

SpecScenario == Init /\ [][ScenarioNext]_vars

SameCall(c, d) ==
    /\ c.op = d.op
    /\ c.label = d.label
    /\ c.doc.type = d.doc.type
    /\ c.doc = d.doc

\* addDocuments(pos docs, "pos"); addDocuments(neg docs, "neg"); train(); classify(q)
ScenarioCalls(q) ==
    <<[NoCall EXCEPT !.op = "addDocuments", !.doc = PosDocs, !.label = pos],
      [NoCall EXCEPT !.op = "addDocuments", !.doc = NegDocs, !.label = neg],
      [NoCall EXCEPT !.op = "train"],
      [NoCall EXCEPT !.op = "classify", !.doc = q]>>

Ran(q) ==
    /\ Len(calls) = 4
    /\ \A i \in 1..4 : SameCall(calls[i], ScenarioCalls(q)[i])

\* ------------------------------------------------------------- claims
ZeroLength(d) == (isString(d) \/ isArray(d)) /\ Len(d.val) = 0

IsDocument(d) == isString(d) \/ isArray(d)

\* C1: classify raises 'Not trained' whenever no class has been trained, also
\* after documents were added and never trained, and the raise changes no field.
C1_NotTrained ==
    [][(call'.op = "classify" /\ classFeatures = <<>>)
          => /\ result'.status = "throw"
             /\ result'.error = "Not trained"
             /\ UNCHANGED fields]_vars

C1_Witness ==
    /\ call.op = "classify"
    /\ result.status = "throw"
    /\ result.error = "Not trained"
    /\ Len(docs) > 0
    /\ lastAdded = 0

\* C2: after addDocuments(["i love cats", "i love dogs"], "pos"),
\* addDocuments(["i hate cats", "i hate dogs"], "neg") and train(),
\* classify("i love parrots") returns "pos" and classify("i hate parrots")
\* returns "neg".
C2_EndToEnd ==
    /\ Ran(LoveParrots) => result.status = "return" /\ result.label = pos
    /\ Ran(HateParrots) => result.status = "return" /\ result.label = neg

C2_Witness == Ran(HateParrots) /\ result.label = neg /\ totalExamples = 5

\* C3: train() leaves the cursor at the end of the log, and a train() called
\* when no document has been added since the previous train() changes no
\* feature count, class total, totalExamples or cursor.
C3_IdempotentTrain ==
    [][/\ call'.op = "train" => lastAdded' = Len(docs')
       /\ (call'.op = "train" /\ (call.op = "train" \/ lastAdded = Len(docs)))
             => UNCHANGED <<classFeatures, classTotals, totalExamples, lastAdded>>]_vars

C3_Witness ==
    /\ call.op = "train"
    /\ Len(docs) = MaxDocs
    /\ lastAdded = Len(docs)
    /\ totalExamples > 1

\* C4 (as claimed): a stem that has feature index i keeps index i forever,
\* whatever stems are added later.
C4_StableIndex ==
    [][\A i \in 1..Len(ForIn(features)) :
          /\ i <= Len(ForIn(features'))
          /\ ForIn(features')[i] = ForIn(features)[i]]_vars

\* C5 (as claimed): addDocument never raises, and an empty or invalid document
\* (empty string, empty sequence, null, undefined, number, object without
\* stems) changes no field.
C5_NeverRaises ==
    [][call'.op = "addDocument"
          => /\ result'.status = "return"
             /\ (~IsDocument(call'.doc) \/ ZeroLength(call'.doc)) => UNCHANGED fields]_vars

\* C6: addDocument with a zero-length string or sequence returns without
\* raising and changes neither the document log nor the vocabulary, nor any
\* other field.
C6_EmptyIsNoOp ==
    [][(call'.op = "addDocument" /\ ZeroLength(call'.doc))
          => result'.status = "return" /\ UNCHANGED <<fields, accumulated>>]_vars

C6_Witness ==
    /\ call.op = "addDocument"
    /\ ZeroLength(call.doc)
    /\ result.status = "return"
    /\ Len(docs) > 0

\* C7: over every step of every operation the vocabulary never loses a stem
\* and its size never decreases.
C7_MonotonicVocabulary ==
    [][/\ Len(features') >= Len(features)
       /\ \A i \in 1..Len(features) :
             \E j \in 1..Len(features') : features'[j] = features[i]]_vars

C7_Witness ==
    /\ Len(features) = 3
    /\ call.op \in {"train", "classify", "getClassifications"}
    /\ lastAdded > 0

\* the number of addExample calls made with a label
Examples(label) ==
    Cardinality({i \in 1..Len(accumulated) : accumulated[i].label = label})

\* C8 (as claimed): for every class, classTotals[label] is the number of
\* examples accumulated for the label, in either form, plus one.
C8_ClassTotals ==
    \A label \in DOMAIN classTotals : classTotals[label] = Examples(label) + 1

\* C9 (as claimed): probabilityOfClass for a label with no trained example
\* completes without raising.
C9_UnknownClassScores ==
    (call.op = "probabilityOfClass" /\ ~HasClass(classFeatures, call.label))
        => result.status = "return"

\* the value probabilityOfClass gives label for the document of the last call
ValueOf(label) ==
    probabilityOfClass(This, JsArray(docToFeatures(This, call.doc).vector), label).value

\* C10: on a trained classifier and a document that is a string or a stem
\* sequence, getClassifications returns one entry per trained class, each value
\* >= the next one, and classify returns the label of the first entry, which
\* no class's value exceeds.
C10_Ranking ==
    /\ (call.op = "getClassifications" /\ IsDocument(call.doc))
          => /\ result.status = "return"
             /\ Len(result.list) = Len(classFeatures)
             /\ \A c \in 1..Len(classFeatures) :
                   Cardinality({i \in 1..Len(result.list) :
                                   result.list[i].label = classFeatures[c].key}) = 1
             /\ \A i \in 1..Len(result.list) :
                   result.list[i].value = ValueOf(result.list[i].label)
             /\ \A i \in 1..(Len(result.list) - 1) :
                   ~Greater(result.list[i + 1].value, result.list[i].value)
    /\ (call.op = "classify" /\ IsDocument(call.doc) /\ classFeatures # <<>>)
          => /\ result.status = "return"
             /\ result.label = getClassifications(This, call.doc).list[1].label
             /\ \A c \in 1..Len(classFeatures) :
                   ~Greater(ValueOf(classFeatures[c].key), ValueOf(result.label))

\* the sort moved the class created second to the front
C10_Witness ==
    /\ call.op = "getClassifications"
    /\ result.status = "return"
    /\ Len(result.list) = 2
    /\ result.list[1].label = classFeatures[2].key
    /\ Greater(result.list[1].value, result.list[2].value)

\* the operations that only ask
IsQuery(op) ==
    op \in {"classify", "getClassifications", "docToFeatures", "probabilityOfClass"}

\* the step repeats the previous call, argument for argument
Repeated ==
    /\ call'.op = call.op
    /\ call'.label = call.label
    /\ call'.doc.type = call.doc.type
    /\ call'.features.type = call.features.type
    /\ call'.doc = call.doc
    /\ call'.features = call.features

\* C11: classify, getClassifications, docToFeatures and probabilityOfClass
\* change no field of the classifier and accumulate nothing, and the same
\* query asked again right away gives the same result.
C11_QueriesReadOnly ==
    [][IsQuery(call'.op)
          => /\ UNCHANGED <<fields, accumulated>>
             /\ Repeated => result' = result]_vars

C11_Witness ==
    /\ call.op = "getClassifications"
    /\ result.status = "return"
    /\ Len(result.list) = 2
    /\ lastAdded = MaxDocs
    /\ Len(features) = 3

\* p = q for two fractions
Equal(p, q) == ~p.nan /\ ~q.nan /\ p.num * q.den = q.num * p.den

StemsOf(doc) == IF isString(doc) THEN tokenizeAndStem(doc.val) ELSE doc.val

\* the document is a string or a stem sequence with no stem in the vocabulary
ZeroOverlap(doc) ==
    /\ IsDocument(doc)
    /\ \A i \in 1..Len(features) :
          \A j \in 1..Len(StemsOf(doc)) : StemsOf(doc)[j] # features[i]

Prior(label) == [nan |-> FALSE, num |-> classTotals[label], den |-> totalExamples]

\* C12: for a trained class, probabilityOfClass of an all-zero vector, and the
\* value getClassifications gives the class for a document that shares no stem
\* with the vocabulary, is exactly classTotals[label] / totalExamples.
C12_Prior ==
    /\ (/\ call.op = "probabilityOfClass"
        /\ HasClass(classFeatures, call.label)
        /\ isArray(call.features)
        /\ \A i \in 1..Len(call.features.val) : call.features.val[i] = 0)
          => result.status = "return" /\ Equal(result.value, Prior(call.label))
    /\ (call.op = "getClassifications" /\ ZeroOverlap(call.doc))
          => /\ result.status = "return"
             /\ \A i \in 1..Len(result.list) :
                   Equal(result.list[i].value, Prior(result.list[i].label))

\* two classes ranked for a document outside a vocabulary of one stem
C12_Witness ==
    /\ call.op = "getClassifications"
    /\ ZeroOverlap(call.doc)
    /\ Len(features) = 1
    /\ Len(result.list) = 2
    /\ totalExamples = 3

RECURSIVE Power(_, _)
Power(b, n) == IF n = 0 THEN 1 ELSE b * Power(b, n - 1)

\* every key the argument of the last call makes present has no count
\* recorded for the class
AllUnrecorded(label) ==
    \A i \in 1..Len(Present(call.features)) :
        Present(call.features)[i] \notin DOMAIN CountsOf(classFeatures, label)

\* C13: for a trained class, when no present feature has a recorded count for
\* the class, probabilityOfClass scores each at exactly the smoothing constant:
\* the value is (classTotal / totalExamples) * (smoothing / classTotal)^n for
\* n present features.
C13_SmoothingFloor ==
    (/\ call.op = "probabilityOfClass"
     /\ HasClass(classFeatures, call.label)
     /\ Present(call.features) # <<>>
     /\ AllUnrecorded(call.label))
        => /\ result.status = "return"
           /\ Equal(result.value,
                    [nan |-> FALSE,
                     num |-> classTotals[call.label]
                               * Power(smoothing, Len(Present(call.features))),
                     den |-> totalExamples
                               * Power(classTotals[call.label],
                                       Len(Present(call.features)))])

\* index 1 entered the vocabulary after neg was last trained
C13_Witness ==
    /\ call.op = "probabilityOfClass"
    /\ call.label = neg
    /\ HasClass(classFeatures, neg)
    /\ Present(call.features) = <<1>>
    /\ AllUnrecorded(neg)
    /\ DOMAIN CountsOf(classFeatures, neg) = {0}
    /\ Len(features) = 3
    /\ result.status = "return"

\* the vocabulary as a set of stems
Vocabulary == {features[i] : i \in 1..Len(features)}

\* C14: for a string or a stem sequence, docToFeatures returns a vector of 0
\* and 1 as long as the vocabulary, whose entry i is 1 exactly when the stems
\* of the document contain the i-th stem of the vocabulary as the classifier
\* enumerates it.
C14_FeatureVector ==
    (call.op = "docToFeatures" /\ IsDocument(call.doc))
        => /\ result.status = "return"
           /\ Len(result.vector) = Cardinality(Vocabulary)
           /\ \A i \in 1..Len(result.vector) :
                 /\ result.vector[i] \in {0, 1}
                 /\ ForIn(features)[i] \in Vocabulary
                 /\ result.vector[i] = 1
                       <=> \E j \in 1..Len(StemsOf(call.doc)) :
                              StemsOf(call.doc)[j] = ForIn(features)[i]
           /\ Cardinality({i \in 1..Len(result.vector) : result.vector[i] = 1})
                 = Cardinality(Vocabulary
                                 \cap {StemsOf(call.doc)[j] :
                                         j \in 1..Len(StemsOf(call.doc))})

\* ["b", "7"] against the vocabulary 7, a, b
C14_Witness ==
    /\ call.op = "docToFeatures"
    /\ isArray(call.doc)
    /\ result.status = "return"
    /\ result.vector = <<1, 0, 1>>

\* C15: totalExamples starts at 1 and is 1 plus the number of addExample calls
\* made; a call of addExample adds exactly 1 whatever its label, its features
\* and its form, train() adds 1 per document it accumulates, and no other
\* operation changes it.
C15_TotalExamples ==
    /\ [](totalExamples = 1 + Len(accumulated))
    /\ [][/\ totalExamples' >= totalExamples
          /\ call'.op = "addExample" => totalExamples' = totalExamples + 1
          /\ call'.op = "train"
                => totalExamples' = totalExamples + (Len(docs) - lastAdded)
          /\ call'.op \notin {"addExample", "train"}
                => totalExamples' = totalExamples]_vars

\* a mapping-form example, a positional one with no nonzero entry trained, and
\* one trained document
C15_Witness ==
    /\ totalExamples = 3
    /\ \E i \in 1..Len(accumulated) : ~isArray(accumulated[i].features)
    /\ \E i \in 1..Len(accumulated) :
          /\ isArray(accumulated[i].features)
          /\ Present(accumulated[i].features) # <<>>

\* C16: every recorded feature count of every class and every class total is
\* strictly positive, every class has a total, and the value probabilityOfClass
\* returns for a trained class is a positive number.
C16_PositiveCounts ==
    /\ \A c \in 1..Len(classFeatures) :
          /\ classFeatures[c].key \in DOMAIN classTotals
          /\ classTotals[classFeatures[c].key] > 0
          /\ \A k \in DOMAIN classFeatures[c].value : classFeatures[c].value[k] > 0
    /\ (call.op = "probabilityOfClass" /\ HasClass(classFeatures, call.label))
          => /\ result.status = "return"
             /\ ~result.value.nan
             /\ result.value.num > 0
             /\ result.value.den > 0

\* a class with two recorded counts is scored on a present feature
C16_Witness ==
    /\ call.op = "probabilityOfClass"
    /\ HasClass(classFeatures, call.label)
    /\ Present(call.features) # <<>>
    /\ Cardinality(DOMAIN CountsOf(classFeatures, call.label)) >= 2
    /\ result.value.num > 0

\* the vector of a logged document against a vocabulary, entry by entry
VectorOf(stems, keys) ==
    [i \in 1..Len(ForIn(keys)) |->
        IF \E j \in 1..Len(stems) : stems[j] = ForIn(keys)[i] THEN 1 ELSE 0]

\* the addExample calls train() owes for the log from the cursor on
Owed ==
    [k \in 1..(Len(docs) - lastAdded) |->
        [features |-> JsArray(VectorOf(docs[lastAdded + k].value, features)),
         label |-> docs[lastAdded + k].label]]

\* C17: train() passes to addExample exactly the documents from the cursor to
\* the end of the log, each once, in log order, with the vector built from the
\* vocabulary at that train() call, and leaves the cursor at the length of the
\* log; no operation but train and addExample accumulates anything, no
\* operation moves the cursor back, and the log below the cursor never changes.
C17_TrainOnce ==
    [][/\ call'.op = "train"
            => /\ accumulated' = accumulated \o Owed
               /\ lastAdded' = Len(docs')
               /\ UNCHANGED <<docs, features>>
       /\ call'.op = "addExample" => Len(accumulated') = Len(accumulated) + 1
       /\ call'.op \notin {"train", "addExample"} => UNCHANGED <<accumulated, lastAdded>>
       /\ lastAdded' >= lastAdded
       /\ lastAdded' <= Len(docs')
       /\ \A i \in 1..Len(docs) : i <= Len(docs') /\ docs'[i] = docs[i]]_vars

\* two documents trained by two train() calls, the vocabulary having grown
\* in between
C17_Witness ==
    /\ call.op = "train"
    /\ lastAdded = 2
    /\ Len(accumulated) = 2
    /\ isArray(accumulated[1].features)
    /\ isArray(accumulated[2].features)
    /\ Len(accumulated[1].features.val) < Len(accumulated[2].features.val)

\* the largest feature index the claims on counts look at
MaxIndex == 3

\* the accumulated positional examples of a label with a nonzero entry at
\* index i
VectorHits(label, i) ==
    Cardinality({e \in 1..Len(accumulated) :
        /\ accumulated[e].label = label
        /\ isArray(accumulated[e].features)
        /\ i < Len(accumulated[e].features.val)
        /\ accumulated[e].features.val[i + 1] # 0})

\* the occurrences of the value i in the accumulated mapping examples of a
\* label
MappingHits(label, i) ==
    Cardinality({p \in (1..Len(accumulated)) \X (1..MaxIndex) :
        /\ accumulated[p[1]].label = label
        /\ ~isArray(accumulated[p[1]].features)
        /\ p[2] <= Len(accumulated[p[1]].features.val)
        /\ accumulated[p[1]].features.val[p[2]] = i})

\* the count the classifier holds for (label, i), a missing one read as
\* this.smoothing
CountAt(label, i) == CountOr(CountsOf(classFeatures, label), i)

\* one addExample call on a positional vector: 1 + smoothing on a first
\* nonzero occurrence, one more on a later one, nothing at a zero entry
VectorStep ==
    (call'.op = "addExample" /\ isArray(call'.features))
        => /\ HasClass(classFeatures', call'.label)
           /\ \A i \in 0..MaxIndex :
                LET old == IF HasClass(classFeatures, call'.label)
                           THEN CountsOf(classFeatures, call'.label)
                           ELSE EmptyCounts
                    new == CountsOf(classFeatures', call'.label)
                    hit == i < Len(call'.features.val) /\ call'.features.val[i + 1] # 0
                IN /\ (hit /\ i \notin DOMAIN old) => new[i] = 1 + smoothing
                   /\ (hit /\ i \in DOMAIN old) => new[i] = old[i] + 1
                   /\ ~hit => /\ (i \in DOMAIN new) = (i \in DOMAIN old)
                              /\ i \in DOMAIN old => new[i] = old[i]

\* C18 (as claimed): after any sequence of calls the count for (class, i) is
\* smoothing plus the number of accumulated examples of the class whose
\* vector has a nonzero entry at i.
C18_CountsFromVectors ==
    \A c \in 1..Len(classFeatures) : \A i \in 0..MaxIndex :
        CountAt(classFeatures[c].key, i) = smoothing + VectorHits(classFeatures[c].key, i)

\* C18 (amended): an addExample call on a positional vector sets the count of
\* an index to 1 + smoothing on its first nonzero occurrence for the class,
\* adds 1 on a later one and leaves the counts of zero entries untouched; in
\* every state the count for (class, i) is smoothing plus the number of
\* accumulated positional examples of the class with a nonzero entry at i
\* plus the number of occurrences of the value i in the accumulated mapping
\* examples of the class.
C18_Counts ==
    /\ [](\A c \in 1..Len(classFeatures) : \A i \in 0..MaxIndex :
            CountAt(classFeatures[c].key, i)
                = smoothing + VectorHits(classFeatures[c].key, i)
                            + MappingHits(classFeatures[c].key, i))
    /\ [][VectorStep]_vars

\* a class holding a count from two positional examples next to an index
\* never seen
C18_Witness ==
    \E c \in 1..Len(classFeatures) :
        /\ \E i \in DOMAIN classFeatures[c].value : classFeatures[c].value[i] = 2 + smoothing
        /\ \E i \in 0..MaxIndex : /\ i \notin DOMAIN classFeatures[c].value
                                   /\ VectorHits(classFeatures[c].key, i) = 0
        /\ VectorHits(classFeatures[c].key, 0) + VectorHits(classFeatures[c].key, 1) >= 2

\* the classifier used through every operation but a direct addExample
TrainOnlyNext ==
    \/ \E i \in 1..Len(AddDocumentInputs) :
          /\ Len(docs) < MaxDocs
          /\ AddDocument(AddDocumentInputs[i].arg, AddDocumentInputs[i].label)
          /\ Unlogged
    \/ \E i \in 1..Len(AddDocumentsInputs) :
          /\ Len(docs) + Len(AddDocumentsInputs[i].arg.val) <= MaxDocs
          /\ AddDocuments(AddDocumentsInputs[i].arg, AddDocumentsInputs[i].label)
          /\ Unlogged
    \/ Train /\ Unlogged
    \/ \E i \in 1..Len(QueryInputs) : DocToFeatures(QueryInputs[i]) /\ Unlogged
    \/ \E i \in 1..Len(ProbabilityInputs) :
          /\ ProbabilityOfClass(ProbabilityInputs[i].arg, ProbabilityInputs[i].label)
          /\ Unlogged
    \/ \E i \in 1..Len(QueryInputs) : GetClassifications(QueryInputs[i]) /\ Unlogged
    \/ \E i \in 1..Len(QueryInputs) : Classify(QueryInputs[i]) /\ Unlogged

SpecTrainOnly == Init /\ [][TrainOnlyNext]_vars

\* the sum of classTotals over the first n classes
RECURSIVE SumOfTotals(_)
SumOfTotals(n) ==
    IF n = 0 THEN 0 ELSE classTotals[classFeatures[n].key] + SumOfTotals(n - 1)

\* C19: when examples are accumulated only by train(), in every state between
\* operations the cursor is within the document log, totalExamples is the
\* cursor plus one, and the class totals sum to the cursor plus the number of
\* classes.
C19_Counters ==
    /\ 0 <= lastAdded
    /\ lastAdded <= Len(docs)
    /\ totalExamples = lastAdded + 1
    /\ DOMAIN classTotals = {classFeatures[c].key : c \in 1..Len(classFeatures)}
    /\ SumOfTotals(Len(classFeatures)) = lastAdded + Len(classFeatures)

\* two documents of two classes trained, a third logged or not
C19_Witness ==
    /\ lastAdded = 2
    /\ Len(classFeatures) = 2
    /\ totalExamples = 3
    /\ SumOfTotals(2) = 4

\* the labels with a trained class
Trained == {classFeatures[c].key : c \in 1..Len(classFeatures)}

\* C20: once train() has accumulated a document, the set of trained classes
\* is non-empty and never shrinks, and every classify of a string or a stem
\* sequence from then on, whatever addDocument and train calls came in
\* between, returns one of the trained labels and never raises the
\* untrained-model error.
C20_TrainedStays ==
    /\ [](lastAdded > 0 => Trained # {})
    /\ []((call.op = "classify" /\ IsDocument(call.doc) /\ lastAdded > 0)
            => /\ result.status = "return"
               /\ result.error # "Not trained"
               /\ result.label \in Trained)
    /\ [][/\ Len(classFeatures') >= Len(classFeatures)
          /\ \A c \in 1..Len(classFeatures) : classFeatures'[c].key = classFeatures[c].key
          /\ lastAdded' >= lastAdded]_vars

\* classify answering after a trained document with a later one logged
\* and not yet trained
C20_Witness ==
    /\ call.op = "classify"
    /\ IsDocument(call.doc)
    /\ lastAdded > 0
    /\ Len(docs) > lastAdded
    /\ result.status = "return"
    /\ result.label \in Trained

====
